---- MODULE Spec2Model ----
(***************************************************************************)
(* A model of the webhook client's message validation and submission.      *)
(*                                                                         *)
(* The message tree (Message -> ActionRow -> Button | SelectMenu ->        *)
(* SelectOption) is built by the fluent builder, validated by              *)
(* check_compatibility against a MessageContext, and handed to the HTTP    *)
(* client only when validation succeeded.  Strings are TLC strings, so     *)
(* that `len()` is Len; Option<T> is a sequence of length 0 or 1;          *)
(* Result<(), String> is a record [ok, err] holding the message text the   *)
(* code formats.  Fields that no check reads (emoji, disabled, content,    *)
(* username, ...) are left out of the records.                             *)
(***************************************************************************)
EXTENDS Integers, Sequences, FiniteSets, TLC

VARIABLES
    message,          \* send: `message`, the tree the caller's closure builds
    pc,               \* send: "build" | "check" (inside check_compatibility) |
                      \* "request" (awaiting the response) | "done"
    message_context,  \* send: `message_context` after check_compatibility
    check_result,     \* send: what message.check_compatibility returned
    requests,         \* number of HTTP requests this send handed to the client
    result,           \* send: the WebhookResult<bool> returned to the caller
    call              \* the last call made on the context, where the check is
                      \* followed call by call

vars == <<message, pc, message_context, check_result, requests, result, call>>

----------------------------------------------------------------------------
(* Option<T> and Result<(), String> *)

None == <<>>

Some(v) == <<v>>

is_some(o) == Len(o) = 1

is_none(o) == Len(o) = 0

unwrap(o) == o[1]

Ok == [ok |-> TRUE, err |-> ""]

Err(e) == [ok |-> FALSE, err |-> e]

\* Result::and: the first error wins; the argument is evaluated by the caller
\* before the call, whatever self is.
\* Result::and, had it kept the later error
And_keeping_last(a, b) == IF b.ok THEN a ELSE b

And(a, b) == IF a.ok THEN b ELSE a

bool_to_result(b, err) == IF b THEN Ok ELSE Err(err)

\* e, once v has been evaluated: TLC evaluates the arguments of an operator
\* when they are first read, and a fold's closure runs as soon as it is called.
Strict(v, e) == IF v = v THEN e ELSE e

RECURSIVE Repeat(_, _)
\* str::repeat, by halving
Repeat(s, n) ==
    IF n = 0 THEN ""
    ELSE LET half == Repeat(s, n \div 2) IN
         IF n % 2 = 0 THEN half \o half ELSE half \o half \o s

----------------------------------------------------------------------------
(* The limits *)

Message_max_action_row_count == 5

Message_label_max_len == 80

Message_custom_id_max_len == 100

ActionRow_max_button_count == 5

ActionRow_max_select_menu_count == 1

SelectMenu_max_option_count == 25

SelectMenu_placeholder_max_len == 150

SelectMenu_minimum_of_min_values == 0

SelectMenu_maximum_of_min_values == 25

SelectMenu_maximum_of_max_values == 25

SelectOption_label_max_len == 100

SelectOption_value_max_len == 100

SelectOption_description_max_len == 100

----------------------------------------------------------------------------
(* The error texts *)

DuplicateCustomIdError(id) == "Attempt to use the same custom ID (" \o id \o ") twice!"

ButtonCountError ==
    "Button count for action row exceeded maximum (" \o ToString(ActionRow_max_button_count) \o ")"

SelectMenuCountError ==
    "Select menu count for action row exceeded maximum ("
        \o ToString(ActionRow_max_select_menu_count) \o ")"

ButtonConflictError == "An Action Row containing buttons cannot also contain a select menu"

SelectMenuConflictError ==
    "An Action Row containing a select menu cannot also contain buttons"

LabelLengthError == "Label length exceeds " \o ToString(Message_label_max_len) \o " characters"

MissingStyleError == "Button style must be set!"

MissingUrlError == "Url of a Link button must be set!"

CustomIdLengthError ==
    "Custom ID length exceeds " \o ToString(Message_custom_id_max_len) \o " characters"

ButtonMissingCustomIdError == "Custom ID of a NonLink button must be set!"

RowCountError ==
    "Action row count exceeded " \o ToString(Message_max_action_row_count) \o " (maximum)"

MaxLengthError(err_name, max_len) ==
    err_name \o " exceeded maximum length " \o ToString(max_len)

MissingLabelError == "Label of a menu option must be set!"

MissingValueError == "Value of a menu option must be set!"

MenuMissingCustomIdError == "Custom ID of a Select menu must be set!"

OptionCountError == "Option count exceeded maximum " \o ToString(SelectMenu_max_option_count)

MinValuesError ==
    "Min values does not fall into the [" \o ToString(SelectMenu_minimum_of_min_values) \o ", "
        \o ToString(SelectMenu_maximum_of_min_values) \o "] interval"

MaxValuesError == "Max values exceeded maximum " \o ToString(SelectMenu_maximum_of_max_values)

----------------------------------------------------------------------------
(* MessageContext *)

MessageContext_new ==
    [custom_ids |-> {},
     button_count_in_action_row |-> 0,
     select_menu_count_in_action_row |-> 0]

\* HashSet::insert returns false, and leaves the set alone, when the id is there.
register_custom_id(ctx, id) ==
    IF id \in ctx.custom_ids
    THEN [res |-> Err(DuplicateCustomIdError(id)), ctx |-> ctx]
    ELSE [res |-> Ok, ctx |-> [ctx EXCEPT !.custom_ids = @ \cup {id}]]

\* register_button, had the count been checked before the custom id is registered
register_button_count_first(ctx, id) ==
    IF ctx.button_count_in_action_row >= ActionRow_max_button_count
    THEN [res |-> Err(ButtonCountError), ctx |-> ctx]
    ELSE LET r == register_custom_id(ctx, id) IN
         IF ~r.res.ok THEN r
         ELSE LET c == [r.ctx EXCEPT !.button_count_in_action_row = @ + 1] IN
              IF c.select_menu_count_in_action_row > 0
              THEN [res |-> Err(ButtonConflictError), ctx |-> c]
              ELSE [res |-> Ok, ctx |-> c]

register_button(ctx, id) ==
    LET r == register_custom_id(ctx, id) IN
    IF ~r.res.ok THEN r
    ELSE IF r.ctx.button_count_in_action_row >= ActionRow_max_button_count
    THEN [res |-> Err(ButtonCountError), ctx |-> r.ctx]
    ELSE LET c == [r.ctx EXCEPT !.button_count_in_action_row = @ + 1] IN
         IF c.select_menu_count_in_action_row > 0
         THEN [res |-> Err(ButtonConflictError), ctx |-> c]
         ELSE [res |-> Ok, ctx |-> c]

\* register_select_menu, had the counter been incremented before it is compared
\* with the limit
register_select_menu_counting_first(ctx, id) ==
    LET r == register_custom_id(ctx, id) IN
    IF ~r.res.ok THEN r
    ELSE LET c == [r.ctx EXCEPT !.select_menu_count_in_action_row = @ + 1] IN
         IF c.select_menu_count_in_action_row > ActionRow_max_select_menu_count
         THEN [res |-> Err(SelectMenuCountError), ctx |-> c]
         ELSE IF c.button_count_in_action_row > 0
         THEN [res |-> Err(SelectMenuConflictError), ctx |-> c]
         ELSE [res |-> Ok, ctx |-> c]

register_select_menu(ctx, id) ==
    LET r == register_custom_id(ctx, id) IN
    IF ~r.res.ok THEN r
    ELSE IF r.ctx.select_menu_count_in_action_row >= ActionRow_max_select_menu_count
    THEN [res |-> Err(SelectMenuCountError), ctx |-> r.ctx]
    ELSE LET c == [r.ctx EXCEPT !.select_menu_count_in_action_row = @ + 1] IN
         IF c.button_count_in_action_row > 0
         THEN [res |-> Err(SelectMenuConflictError), ctx |-> c]
         ELSE [res |-> Ok, ctx |-> c]

\* register_action_row, had it reset nothing
register_action_row_keeping_counts(ctx) == ctx

\* Both assignments of the body write button_count_in_action_row.
register_action_row(ctx) ==
    [[ctx EXCEPT !.button_count_in_action_row = 0]
        EXCEPT !.button_count_in_action_row = 0]

----------------------------------------------------------------------------
(* The builder *)

Message_new == [embeds |-> <<>>, action_rows |-> <<>>]

Embed_new == [title |-> None, description |-> None, fields |-> <<>>]

Embed_title(embed, title) == [embed EXCEPT !.title = Some(title)]

Embed_description(embed, description) == [embed EXCEPT !.description = Some(description)]

EmbedField_new(name, value) == [name |-> name, value |-> value]

\* panics when the embed already has 25 fields; the callers below stay under it
Embed_field(embed, name, value) ==
    [embed EXCEPT !.fields = Append(@, EmbedField_new(name, value))]

Message_embed(msg, embed) == [msg EXCEPT !.embeds = Append(@, embed)]

ActionRow_new == [components |-> <<>>]

Button_new(style, label, url, custom_id) ==
    [kind |-> "Button", style |-> style, label |-> label, url |-> url,
     custom_id |-> custom_id]

LinkButton_new == [label |-> None, url |-> None]

RegularButton_new == [label |-> None, custom_id |-> None, style |-> None]

\* to_serializable_button of a LinkButton, had it left the style unset
LinkButton_to_serializable_button_without_style(b) ==
    Button_new(None, b.label, b.url, None)

LinkButton_to_serializable_button(b) ==
    Button_new(Some("Link"), b.label, b.url, None)

\* get_button_style maps each NonLinkButtonStyle to the ButtonStyles value of
\* the same name.
RegularButton_to_serializable_button(b) ==
    Button_new(b.style, b.label, None, b.custom_id)

SelectOption_new(label, value, description) ==
    [label |-> label, value |-> value, description |-> description]

SelectMenu_new(custom_id, placeholder, min_values, max_values) ==
    [kind |-> "SelectMenu", custom_id |-> custom_id, options |-> <<>>,
     placeholder |-> placeholder, min_values |-> min_values,
     max_values |-> max_values]

SelectMenu_option(menu, option) == [menu EXCEPT !.options = Append(@, option)]

\* link_button, regular_button and select_menu push the component the mutator
\* configured.
ActionRow_push(row, component) == [row EXCEPT !.components = Append(@, component)]

Message_action_row(msg, row) == [msg EXCEPT !.action_rows = Append(@, row)]

----------------------------------------------------------------------------
(* check_compatibility *)

RECURSIVE limit_max_length(_, _)
\* specs: a sequence of <<Option<String>, max_len, err_name>>; from index i on.
limit_max_length(specs, i) ==
    IF i > Len(specs) THEN Ok
    ELSE LET opt == specs[i][1]
             max_len == specs[i][2]
             err_name == specs[i][3] IN
         IF is_some(opt) /\ Len(unwrap(opt)) > max_len
         THEN Err(MaxLengthError(err_name, max_len))
         ELSE limit_max_length(specs, i + 1)

SelectOption_check_compatibility(o) ==
    IF is_none(o.label) THEN Err(MissingLabelError)
    ELSE IF is_none(o.value) THEN Err(MissingValueError)
    ELSE limit_max_length(
            << <<o.label, SelectOption_label_max_len, "Label">>,
               <<o.label, SelectOption_value_max_len, "Value">>,
               <<o.description, SelectOption_description_max_len, "Description">> >>, 1)

\* self.options.iter().fold(Ok(()), |acc, val| acc.and(val.check_compatibility(context)))
\* Every option is checked; acc.and(x) is x until the first error and that error
\* from then on, so the fold returns the result of the first option that fails.
\* (The option checks leave the context alone.)
SelectMenu_fold(options) ==
    LET results == [i \in 1..Len(options) |-> SelectOption_check_compatibility(options[i])]
        errors == {i \in 1..Len(options) : ~results[i].ok}
    IN IF errors = {} THEN Ok
       ELSE results[CHOOSE i \in errors : \A j \in errors : i <= j]

\* SelectMenu::check_compatibility, had the custom id been left out of the
\* length checks
SelectMenu_check_compatibility_without_id_length(m, ctx) ==
    IF is_none(m.custom_id)
    THEN [res |-> Err(MenuMissingCustomIdError), ctx |-> ctx]
    ELSE
    LET r == register_select_menu(ctx, unwrap(m.custom_id)) IN
    IF ~r.res.ok THEN r
    ELSE IF Len(m.options) > SelectMenu_max_option_count
    THEN [res |-> Err(OptionCountError), ctx |-> r.ctx]
    ELSE IF is_some(m.min_values)
            /\ (unwrap(m.min_values) > SelectMenu_maximum_of_min_values
                \/ unwrap(m.min_values) < SelectMenu_minimum_of_min_values)
    THEN [res |-> Err(MinValuesError), ctx |-> r.ctx]
    ELSE IF is_some(m.max_values) /\ unwrap(m.max_values) > SelectMenu_maximum_of_max_values
    THEN [res |-> Err(MaxValuesError), ctx |-> r.ctx]
    ELSE [res |-> And(limit_max_length(
                        << <<m.placeholder, SelectMenu_placeholder_max_len, "Placeholder">> >>, 1),
                      SelectMenu_fold(m.options)),
          ctx |-> r.ctx]

\* SelectMenu::check_compatibility, had the option count been compared with >=
SelectMenu_check_compatibility_count_exclusive(m, ctx) ==
    IF is_none(m.custom_id)
    THEN [res |-> Err(MenuMissingCustomIdError), ctx |-> ctx]
    ELSE
    LET r == register_select_menu(ctx, unwrap(m.custom_id)) IN
    IF ~r.res.ok THEN r
    ELSE IF Len(m.options) >= SelectMenu_max_option_count
    THEN [res |-> Err(OptionCountError), ctx |-> r.ctx]
    ELSE IF is_some(m.min_values)
            /\ (unwrap(m.min_values) > SelectMenu_maximum_of_min_values
                \/ unwrap(m.min_values) < SelectMenu_minimum_of_min_values)
    THEN [res |-> Err(MinValuesError), ctx |-> r.ctx]
    ELSE IF is_some(m.max_values) /\ unwrap(m.max_values) > SelectMenu_maximum_of_max_values
    THEN [res |-> Err(MaxValuesError), ctx |-> r.ctx]
    ELSE [res |-> And(limit_max_length(
                        << <<m.custom_id, Message_custom_id_max_len, "Custom ID">>,
                           <<m.placeholder, SelectMenu_placeholder_max_len, "Placeholder">> >>, 1),
                      SelectMenu_fold(m.options)),
          ctx |-> r.ctx]

SelectMenu_check_compatibility(m, ctx) ==
    IF is_none(m.custom_id)
    THEN [res |-> Err(MenuMissingCustomIdError), ctx |-> ctx]
    ELSE
    LET r == register_select_menu(ctx, unwrap(m.custom_id)) IN
    IF ~r.res.ok THEN r
    ELSE IF Len(m.options) > SelectMenu_max_option_count
    THEN [res |-> Err(OptionCountError), ctx |-> r.ctx]
    ELSE IF is_some(m.min_values)
            /\ (unwrap(m.min_values) > SelectMenu_maximum_of_min_values
                \/ unwrap(m.min_values) < SelectMenu_minimum_of_min_values)
    THEN [res |-> Err(MinValuesError), ctx |-> r.ctx]
    ELSE IF is_some(m.max_values) /\ unwrap(m.max_values) > SelectMenu_maximum_of_max_values
    THEN [res |-> Err(MaxValuesError), ctx |-> r.ctx]
    ELSE [res |-> And(limit_max_length(
                        << <<m.custom_id, Message_custom_id_max_len, "Custom ID">>,
                           <<m.placeholder, SelectMenu_placeholder_max_len, "Placeholder">> >>, 1),
                      SelectMenu_fold(m.options)),
          ctx |-> r.ctx]

\* Button::check_compatibility, had the label been compared with >=
Button_check_compatibility_label_exclusive(b, ctx) ==
    IF is_some(b.label) /\ Len(unwrap(b.label)) >= Message_label_max_len
    THEN [res |-> Err(LabelLengthError), ctx |-> ctx]
    ELSE IF is_none(b.style)
    THEN [res |-> Err(MissingStyleError), ctx |-> ctx]
    ELSE IF unwrap(b.style) = "Link"
    THEN [res |-> IF is_none(b.url) THEN Err(MissingUrlError) ELSE Ok, ctx |-> ctx]
    ELSE IF is_some(b.custom_id)
    THEN LET id == unwrap(b.custom_id)
             r == register_button(ctx, id) IN
         [res |-> And(bool_to_result(Len(id) <= Message_custom_id_max_len, CustomIdLengthError),
                      r.res),
          ctx |-> r.ctx]
    ELSE [res |-> Err(ButtonMissingCustomIdError), ctx |-> ctx]

\* Button::check_compatibility, had the custom id been registered before the
\* style is looked at
Button_check_compatibility_id_first(b, ctx) ==
    IF is_some(b.label) /\ Len(unwrap(b.label)) > Message_label_max_len
    THEN [res |-> Err(LabelLengthError), ctx |-> ctx]
    ELSE IF is_some(b.style) /\ unwrap(b.style) = "Link"
    THEN [res |-> IF is_none(b.url) THEN Err(MissingUrlError) ELSE Ok, ctx |-> ctx]
    ELSE IF is_some(b.custom_id)
    THEN LET id == unwrap(b.custom_id)
             r == register_button(ctx, id) IN
         [res |-> And(bool_to_result(Len(id) <= Message_custom_id_max_len, CustomIdLengthError),
                      And(r.res, IF is_none(b.style) THEN Err(MissingStyleError) ELSE Ok)),
          ctx |-> r.ctx]
    ELSE [res |-> Err(ButtonMissingCustomIdError), ctx |-> ctx]

Button_check_compatibility(b, ctx) ==
    IF is_some(b.label) /\ Len(unwrap(b.label)) > Message_label_max_len
    THEN [res |-> Err(LabelLengthError), ctx |-> ctx]
    ELSE IF is_none(b.style)
    THEN [res |-> Err(MissingStyleError), ctx |-> ctx]
    ELSE IF unwrap(b.style) = "Link"
    THEN [res |-> IF is_none(b.url) THEN Err(MissingUrlError) ELSE Ok, ctx |-> ctx]
    ELSE IF is_some(b.custom_id)
    THEN LET id == unwrap(b.custom_id)
             r == register_button(ctx, id) IN
         [res |-> And(bool_to_result(Len(id) <= Message_custom_id_max_len, CustomIdLengthError),
                      r.res),
          ctx |-> r.ctx]
    ELSE [res |-> Err(ButtonMissingCustomIdError), ctx |-> ctx]

NonCompositeComponent_check_compatibility(c, ctx) ==
    IF c.kind = "Button"
    THEN Button_check_compatibility(c, ctx)
    ELSE SelectMenu_check_compatibility(c, ctx)

RECURSIVE ActionRow_fold(_, _, _, _)
\* self.components.iter().fold(Ok(()), |acc, component|
\*     acc.and(component.check_compatibility(context)))
ActionRow_fold(components, i, acc, ctx) ==
    IF i > Len(components) THEN [res |-> acc, ctx |-> ctx]
    ELSE LET r == NonCompositeComponent_check_compatibility(components[i], ctx)
             next == And(acc, r.res) IN
         Strict(<<r, next>>, ActionRow_fold(components, i + 1, next, r.ctx))

\* ActionRow::check_compatibility, had register_action_row been called after the
\* components were checked
ActionRow_check_compatibility_registering_last(row, ctx) ==
    LET r == ActionRow_fold(row.components, 1, Ok, ctx) IN
    [res |-> r.res, ctx |-> register_action_row(r.ctx)]

ActionRow_check_compatibility(row, ctx) ==
    ActionRow_fold(row.components, 1, Ok, register_action_row(ctx))

RECURSIVE Message_fold(_, _, _, _)
\* self.action_rows.iter().fold(Ok(()), |acc, row| acc.and(row.check_compatibility(context)))
Message_fold(action_rows, i, acc, ctx) ==
    IF i > Len(action_rows) THEN [res |-> acc, ctx |-> ctx]
    ELSE LET r == ActionRow_check_compatibility(action_rows[i], ctx)
             next == And(acc, r.res) IN
         Strict(<<r, next>>, Message_fold(action_rows, i + 1, next, r.ctx))

\* Message::check_compatibility, had the row count been compared with >=
Message_check_compatibility_off_by_one(msg, ctx) ==
    IF Len(msg.action_rows) >= Message_max_action_row_count
    THEN [res |-> Err(RowCountError), ctx |-> ctx]
    ELSE Message_fold(msg.action_rows, 1, Ok, ctx)

Message_check_compatibility(msg, ctx) ==
    IF Len(msg.action_rows) > Message_max_action_row_count
    THEN [res |-> Err(RowCountError), ctx |-> ctx]
    ELSE Message_fold(msg.action_rows, 1, Ok, ctx)

\* The calls on the context that the checks above make, in the order they are
\* made; each call is tagged with the index of the row being checked.

\* register_button is reached in the last arm only, and there whatever the
\* length check said
Button_calls(b, row) ==
    IF is_some(b.label) /\ Len(unwrap(b.label)) > Message_label_max_len THEN <<>>
    ELSE IF is_none(b.style) \/ b.style = Some("Link") THEN <<>>
    ELSE IF is_some(b.custom_id)
    THEN << [op |-> "register_button", id |-> b.custom_id, row |-> row] >>
    ELSE <<>>

SelectMenu_calls(m, row) ==
    IF is_some(m.custom_id)
    THEN << [op |-> "register_select_menu", id |-> m.custom_id, row |-> row] >>
    ELSE <<>>

NonCompositeComponent_calls(c, row) ==
    IF c.kind = "Button" THEN Button_calls(c, row) ELSE SelectMenu_calls(c, row)

RECURSIVE ActionRow_fold_calls(_, _, _)
ActionRow_fold_calls(components, i, row) ==
    IF i > Len(components) THEN <<>>
    ELSE NonCompositeComponent_calls(components[i], row)
            \o ActionRow_fold_calls(components, i + 1, row)

ActionRow_calls(action_row, row) ==
    << [op |-> "register_action_row", id |-> None, row |-> row] >>
        \o ActionRow_fold_calls(action_row.components, 1, row)

RECURSIVE Message_fold_calls(_, _)
Message_fold_calls(action_rows, i) ==
    IF i > Len(action_rows) THEN <<>>
    ELSE ActionRow_calls(action_rows[i], i) \o Message_fold_calls(action_rows, i + 1)

Message_calls(msg) ==
    IF Len(msg.action_rows) > Message_max_action_row_count THEN <<>>
    ELSE Message_fold_calls(msg.action_rows, 1)

----------------------------------------------------------------------------
(* WebhookClient::send *)

NotChecked == [ok |-> FALSE, err |-> "check_compatibility has not run"]

Pending == [kind |-> "Pending", detail |-> ""]

\* Err(Box::new(std::io::Error::new(ErrorKind::InvalidInput, error_message)))
InvalidInput(error_message) == [kind |-> "Err", detail |-> error_message]

\* no call has been made on the context yet
NoCall == [op |-> "none", id |-> None]

Init ==
    /\ message = Message_new
    /\ pc = "build"
    /\ message_context = MessageContext_new
    /\ check_result = NotChecked
    /\ requests = 0
    /\ result = Pending
    /\ call = NoCall

\* send_after_check, had send gone on to send_message whatever the check said
send_ignoring_check(res) ==
    /\ requests' = requests + 1
    /\ pc' = "request"
    /\ result' = result

\* What send does with the outcome of the check: the error is returned, or
\* send_message goes on to build the request (which fails on a url that does not
\* parse) and to hand it to the client.
send_after_check(res) ==
    IF ~res.ok
    THEN /\ result' = InvalidInput(res.err)
         /\ pc' = "done"
         /\ requests' = requests
    ELSE \E request_built \in BOOLEAN :
            IF request_built
            THEN /\ requests' = requests + 1
                 /\ pc' = "request"
                 /\ result' = result
            ELSE /\ result' = [kind |-> "Err", detail |-> "request could not be built"]
                 /\ pc' = "done"
                 /\ requests' = requests

\* send, had it checked the message against the context the send before it left
Send_reusing_context ==
    /\ pc = "build"
    /\ LET r == Message_check_compatibility(message, message_context) IN
        /\ message_context' = r.ctx
        /\ check_result' = r.res
        /\ send_after_check(r.res)
    /\ UNCHANGED <<message, call>>

\* send, up to the await of the response
Send ==
    /\ pc = "build"
    /\ LET r == Message_check_compatibility(message, MessageContext_new) IN
        /\ message_context' = r.ctx
        /\ check_result' = r.res
        /\ send_after_check(r.res)
    /\ UNCHANGED <<message, call>>

\* send_message, from the response on
Respond ==
    /\ pc = "request"
    /\ \E outcome \in {"NO_CONTENT", "OTHER_STATUS", "TRANSPORT_ERROR"} :
        result' = CASE outcome = "NO_CONTENT" -> [kind |-> "Ok", detail |-> "true"]
                    [] outcome = "OTHER_STATUS" -> InvalidInput("response body")
                    [] OTHER -> [kind |-> "Err", detail |-> "hyper error"]
    /\ pc' = "done"
    /\ UNCHANGED <<message, message_context, check_result, requests, call>>

\* send enters message.check_compatibility with the new context
CheckBegin ==
    /\ pc = "build"
    /\ pc' = "check"
    /\ message_context' = MessageContext_new
    /\ UNCHANGED <<message, check_result, requests, result, call>>

\* ActionRow::check_compatibility calls register_action_row, which returns nothing
RegisterActionRow ==
    /\ pc = "check"
    /\ message_context' = register_action_row(message_context)
    /\ call' = [op |-> "register_action_row", id |-> None]
    /\ UNCHANGED <<message, pc, check_result, requests, result>>

\* custom ids the components of one message may carry
MaxIds == 7

ContextIds == {ToString(i) : i \in 0..(MaxIds - 1)}

\* Button::check_compatibility calls register_button for a component of the row
\* being checked; check_result holds what this call returned
RegisterButton ==
    /\ pc = "check"
    /\ call.op # "none"
    /\ \E id \in ContextIds :
        LET r == register_button(message_context, id) IN
        /\ message_context' = r.ctx
        /\ check_result' = r.res
        /\ call' = [op |-> "register_button", id |-> Some(id)]
    /\ UNCHANGED <<message, pc, requests, result>>

\* SelectMenu::check_compatibility calls register_select_menu likewise
RegisterSelectMenu ==
    /\ pc = "check"
    /\ call.op # "none"
    /\ \E id \in ContextIds :
        LET r == register_select_menu(message_context, id) IN
        /\ message_context' = r.ctx
        /\ check_result' = r.res
        /\ call' = [op |-> "register_select_menu", id |-> Some(id)]
    /\ UNCHANGED <<message, pc, requests, result>>

\* The caller calls send again on the same client, after the send before it
\* returned or while it awaits its response (the only await of send); the
\* variables follow the newest send.  Its message and context are new locals;
\* message_context and result keep what the earlier send left until the new send
\* writes its own.
SendAgain ==
    /\ pc \in {"request", "done"}
    /\ pc' = "build"
    /\ message' = Message_new
    /\ check_result' = NotChecked
    /\ requests' = 0
    /\ UNCHANGED <<message_context, result, call>>

----------------------------------------------------------------------------
(* The messages the callers build *)

\* rows and components a caller may build beyond what a message is allowed
MaxRowsBuilt == 6

MaxTotal == 3

MaxLoop == 6

MaxLoopRows == 2

NonLinkButtonStyles == {"Primary", "Secondary", "Success", "Danger"}

\* row.regular_button(|button| button.custom_id(id).style(style))
StyledButton(id, style) ==
    RegularButton_to_serializable_button(
        [RegularButton_new EXCEPT !.custom_id = Some(id), !.style = Some(style)])

\* row.link_button(|button| button.url("u"))
UrlButton == LinkButton_to_serializable_button([LinkButton_new EXCEPT !.url = Some("u")])

\* opt.label(&i.to_string()).value(&i.to_string())
NumberedOption(i) == SelectOption_new(Some(ToString(i)), Some(ToString(i)), None)

\* for i in 0..n { menu.option(|opt| opt.label(&i.to_string()).value(&i.to_string())); }
\* on a menu that has no option yet
OptionLoop(menu, n) == [menu EXCEPT !.options = [k \in 1..n |-> NumberedOption(k - 1)]]

\* row.select_menu(|menu| menu.custom_id(id).option(|opt| opt.label("test").value("test")))
OneOptionMenu(id) ==
    SelectMenu_option(SelectMenu_new(Some(id), None, None, None),
                      SelectOption_new(Some("test"), Some("test"), None))

SmallIds == {"0", "1"}

SmallComponents ==
    {StyledButton(id, "Primary") : id \in SmallIds}
        \cup {UrlButton}
        \cup {OneOptionMenu(id) : id \in SmallIds}

RECURSIVE RowsOver(_, _)
\* the rows of at most n components of S
RowsOver(S, n) ==
    IF n = 0 THEN {ActionRow_new}
    ELSE LET shorter == RowsOver(S, n - 1) IN
         shorter \cup {ActionRow_push(r, c) : r \in shorter, c \in S}

RECURSIVE ComponentCount(_, _)
\* the components of rows i.. of the message
ComponentCount(action_rows, i) ==
    IF i > Len(action_rows) THEN 0
    ELSE Len(action_rows[i].components) + ComponentCount(action_rows, i + 1)

\* message.action_row(|row| ...), the mutator adding a few components
ActionRowSmall ==
    /\ pc = "build"
    /\ Len(message.action_rows) < MaxRowsBuilt
    /\ \E row \in RowsOver(SmallComponents, MaxTotal - ComponentCount(message.action_rows, 1)) :
        message' = Message_action_row(message, row)
    /\ UNCHANGED <<pc, message_context, check_result, requests, result, call>>

LoopKinds == {"regular_button", "link_button", "select_menu"}

\* the j-th component of the loop that fills row i
LoopComponent(kind, i, j) ==
    CASE kind = "regular_button" -> StyledButton(ToString(i) \o ToString(j), "Primary")
      [] kind = "link_button" -> UrlButton
      [] OTHER -> OneOptionMenu(ToString(i) \o ToString(j))

\* message.action_row(|row| { for j in 0..n { row.<kind>(...) } row }) as row i
LoopRow(kind, i, n) ==
    [ActionRow_new EXCEPT !.components = [k \in 1..n |-> LoopComponent(kind, i, k - 1)]]

\* for i in 0..rows { message.action_row(|row| { for j in 0..n { ... } row }); }
LoopMessage(kind, rows, n) ==
    [Message_new EXCEPT !.action_rows = [k \in 1..rows |-> LoopRow(kind, k - 1, n)]]

\* one more row, filled by a loop
ActionRowLoop ==
    /\ pc = "build"
    /\ Len(message.action_rows) < MaxLoopRows
    /\ \E kind \in LoopKinds, n \in 0..MaxLoop :
        message' = Message_action_row(message, LoopRow(kind, Len(message.action_rows), n))
    /\ UNCHANGED <<pc, message_context, check_result, requests, result, call>>

\* the whole message, filled by two nested loops
MessageLoop ==
    /\ pc = "build"
    /\ message = Message_new
    /\ \E kind \in LoopKinds, rows \in 1..MaxRowsBuilt, n \in 0..MaxLoop :
        message' = LoopMessage(kind, rows, n)
    /\ UNCHANGED <<pc, message_context, check_result, requests, result, call>>

\* components that pass, and components that fail on their own: a button
\* without a style, a button whose custom id is too long, a link button without
\* a url, a select menu whose two options both fail
MixedComponents ==
    {StyledButton("0", "Primary"),
     OneOptionMenu("0"),
     RegularButton_to_serializable_button([RegularButton_new EXCEPT !.custom_id = Some("1")]),
     StyledButton(Repeat("a", Message_custom_id_max_len + 1), "Primary"),
     LinkButton_to_serializable_button(LinkButton_new),
     SelectMenu_option(
        SelectMenu_option(SelectMenu_new(Some("1"), None, None, None),
                          SelectOption_new(Some("test"), None, None)),
        SelectOption_new(None, Some("test"), None))}

\* message.action_row(|row| ...), the mutator adding a few of these components
ActionRowMixed ==
    /\ pc = "build"
    /\ Len(message.action_rows) < MaxRowsBuilt
    /\ \E row \in RowsOver(MixedComponents, MaxTotal - ComponentCount(message.action_rows, 1)) :
        message' = Message_action_row(message, row)
    /\ UNCHANGED <<pc, message_context, check_result, requests, result, call>>

\* rows of the messages that are sent one after the other
MaxSendRows == 2

\* message.action_row(|row| row.<component>(...)): one more row of one component
ActionRowOne ==
    /\ pc = "build"
    /\ Len(message.action_rows) < MaxSendRows
    /\ \E component \in SmallComponents :
        message' = Message_action_row(message, ActionRow_push(ActionRow_new, component))
    /\ UNCHANGED <<pc, message_context, check_result, requests, result, call>>

\* embeds a caller may add to one message
MaxEmbeds == 2

\* embed.title("test").description("test").field("test", "test", false), and
\* embeds whose field has an empty name or an empty value
EmbedInputs ==
    {Embed_field(Embed_description(Embed_title(Embed_new, "test"), "test"), "test", "test"),
     Embed_field(Embed_new, "", "test"),
     Embed_field(Embed_new, "test", "")}

\* message.embed(|embed| ...)
MessageEmbed ==
    /\ pc = "build"
    /\ Len(message.embeds) < MaxEmbeds
    /\ \E embed \in EmbedInputs : message' = Message_embed(message, embed)
    /\ UNCHANGED <<pc, message_context, check_result, requests, result, call>>

\* "l".repeat(max_allowed + 1) and its neighbours
LabelInputs == {None, Some(Repeat("l", Message_label_max_len)), Some(Repeat("l", Message_label_max_len + 1))}

CustomIdInputs ==
    {None, Some("0"), Some(Repeat("a", Message_custom_id_max_len)),
     Some(Repeat("a", Message_custom_id_max_len + 1))}

FieldButtons ==
    {RegularButton_to_serializable_button(
        [label |-> label, custom_id |-> custom_id, style |-> style]) :
        label \in LabelInputs, custom_id \in CustomIdInputs,
        style \in {None} \cup {Some(s) : s \in NonLinkButtonStyles}}
    \cup
    {LinkButton_to_serializable_button([label |-> label, url |-> url]) :
        label \in LabelInputs, url \in {None, Some("u")}}

OptionTextInputs(max_len) ==
    {None, Some("test"), Some(Repeat("v", max_len)), Some(Repeat("v", max_len + 1))}

FieldOptions ==
    {SelectOption_new(label, value, description) :
        label \in OptionTextInputs(SelectOption_label_max_len),
        value \in OptionTextInputs(SelectOption_value_max_len),
        description \in {None, Some(Repeat("d", SelectOption_description_max_len)),
                         Some(Repeat("d", SelectOption_description_max_len + 1))}}

FieldEmptyMenus ==
    {SelectMenu_new(custom_id, placeholder, min_values, max_values) :
        custom_id \in CustomIdInputs,
        placeholder \in {None, Some(Repeat("t", SelectMenu_placeholder_max_len)),
                         Some(Repeat("t", SelectMenu_placeholder_max_len + 1))},
        min_values \in {None, Some(0), Some(2), Some(SelectMenu_maximum_of_min_values),
                        Some(SelectMenu_maximum_of_min_values + 1)},
        max_values \in {None, Some(0), Some(1), Some(SelectMenu_maximum_of_max_values),
                        Some(SelectMenu_maximum_of_max_values + 1)}}

FieldMenus ==
    {OptionLoop(menu, n) :
        menu \in FieldEmptyMenus, n \in {0, 1, SelectMenu_max_option_count, SelectMenu_max_option_count + 1}}
    \cup {SelectMenu_option(menu, option) : menu \in FieldEmptyMenus, option \in FieldOptions}

\* message.action_row(|row| row.<component>(...)): one row holding one component
ActionRowField ==
    /\ pc = "build"
    /\ message = Message_new
    /\ \E component \in FieldButtons \cup FieldMenus :
        message' = Message_action_row(message, ActionRow_push(ActionRow_new, component))
    /\ UNCHANGED <<pc, message_context, check_result, requests, result, call>>

----------------------------------------------------------------------------
(* The specifications *)

\* messages of a few components, in any arrangement
Next == ActionRowSmall \/ Send \/ Respond

Spec == Init /\ [][Next]_vars

\* messages whose rows are filled by loops
NextLoop == ActionRowLoop \/ MessageLoop \/ Send \/ Respond

SpecLoop == Init /\ [][NextLoop]_vars

\* messages of one component, its fields at and around their limits
NextField == ActionRowField \/ Send \/ Respond

SpecField == Init /\ [][NextField]_vars

\* messages of loop-filled rows, with embeds
NextEmbed == MessageLoop \/ MessageEmbed \/ Send \/ Respond

SpecEmbed == Init /\ [][NextEmbed]_vars

\* messages of a few components, some of which fail on their own
NextMixed == ActionRowMixed \/ Send \/ Respond

SpecMixed == Init /\ [][NextMixed]_vars

\* several sends on one client, each with a small message
NextSends == ActionRowOne \/ Send \/ Respond \/ SendAgain

SpecSends == Init /\ [][NextSends]_vars

\* the calls check_compatibility makes on the context, one at a time: every row
\* starts with register_action_row, and every styled button and select menu that
\* has a custom id makes its call whether or not an earlier component failed
NextContext == CheckBegin \/ RegisterActionRow \/ RegisterButton \/ RegisterSelectMenu

SpecContext == Init /\ [][NextContext]_vars

----------------------------------------------------------------------------
(* What the claims speak of *)

Rows == message.action_rows

\* send has run check_compatibility on the message
Checked == pc # "build"

\* the places <<row, index>> of the message's components
Places ==
    UNION {{<<r, k>> : k \in 1..Len(Rows[r].components)} : r \in 1..Len(Rows)}

At(p) == Rows[p[1]].components[p[2]]

IsButton(c) == c.kind = "Button"

IsSelectMenu(c) == c.kind = "SelectMenu"

IsLinkButton(c) == IsButton(c) /\ c.style = Some("Link")

\* a regular button that has a style
IsStyledButton(c) == IsButton(c) /\ is_some(c.style) /\ c.style # Some("Link")

LabelWithinLimit(c) == is_none(c.label) \/ Len(unwrap(c.label)) <= Message_label_max_len

\* the component carries a custom id: a styled regular button or a select menu
CarriesCustomId(c) == (IsStyledButton(c) \/ IsSelectMenu(c)) /\ is_some(c.custom_id)

CustomIdWithinLimit(c) ==
    is_some(c.custom_id) /\ Len(unwrap(c.custom_id)) <= Message_custom_id_max_len

OptionIsValid(o) ==
    /\ is_some(o.label) /\ Len(unwrap(o.label)) <= SelectOption_label_max_len
    /\ is_some(o.value) /\ Len(unwrap(o.value)) <= SelectOption_value_max_len
    /\ is_none(o.description) \/ Len(unwrap(o.description)) <= SelectOption_description_max_len

\* a button that breaks no rule of its own
ButtonIsValid(c) ==
    /\ IsButton(c)
    /\ LabelWithinLimit(c)
    /\ \/ IsLinkButton(c) /\ is_some(c.url)
       \/ IsStyledButton(c) /\ CustomIdWithinLimit(c)

\* a select menu that breaks no rule of its own, the order of min_values and
\* max_values aside
SelectMenuFieldsAreValid(c) ==
    /\ IsSelectMenu(c)
    /\ CustomIdWithinLimit(c)
    /\ Len(c.options) \in 1..SelectMenu_max_option_count
    /\ \A i \in 1..Len(c.options) : OptionIsValid(c.options[i])
    /\ is_none(c.placeholder) \/ Len(unwrap(c.placeholder)) <= SelectMenu_placeholder_max_len
    /\ is_none(c.min_values)
        \/ unwrap(c.min_values) \in SelectMenu_minimum_of_min_values..SelectMenu_maximum_of_min_values
    /\ is_none(c.max_values) \/ unwrap(c.max_values) \in 1..SelectMenu_maximum_of_max_values

\* a select menu that breaks no rule of its own
SelectMenuIsValid(c) ==
    /\ SelectMenuFieldsAreValid(c)
    /\ is_none(c.min_values) \/ is_none(c.max_values)
        \/ unwrap(c.min_values) <= unwrap(c.max_values)

\* two components of the message, at different places, carry the same custom id
CustomIdReused ==
    \E p \in Places, q \in Places :
        /\ p # q
        /\ CarriesCustomId(At(p)) /\ CarriesCustomId(At(q))
        /\ At(p).custom_id = At(q).custom_id

\* the row holds buttons only, at most ActionRow_max_button_count of them, or one select menu
RowIsValid(row) ==
    /\ Len(row.components) >= 1
    /\ \/ /\ Len(row.components) <= ActionRow_max_button_count
          /\ \A k \in 1..Len(row.components) : ButtonIsValid(row.components[k])
       \/ /\ Len(row.components) = 1
          /\ SelectMenuIsValid(row.components[1])

\* the message breaks no rule, the uniqueness of the custom ids aside
ValidButForReuse ==
    /\ Len(Rows) <= Message_max_action_row_count
    /\ \A r \in 1..Len(Rows) : RowIsValid(Rows[r])

IsDuplicateCustomIdError(e) ==
    \E p \in Places : CarriesCustomId(At(p)) /\ e = DuplicateCustomIdError(unwrap(At(p).custom_id))

----------------------------------------------------------------------------
(* The claims *)

\* C1: send hands a request to the HTTP client only when check_compatibility
\* succeeded on the whole message: when the check returns an error, send returns
\* that error and no request is made; at most one request is made per send, and
\* only after a successful check.
C1_RequestOnlyAfterValidation ==
    Checked =>
        LET checked == Message_check_compatibility(message, MessageContext_new).res IN
        /\ requests <= 1
        /\ requests = 1 => checked.ok
        /\ ~checked.ok => requests = 0 /\ pc = "done" /\ result = InvalidInput(checked.err)

\* a send that returned a validation error of a message with components
C1_Witness ==
    /\ pc = "done"
    /\ ~check_result.ok
    /\ requests = 0
    /\ result = InvalidInput(check_result.err)
    /\ Places # {}

\* C2: a message in which two components carry the same custom id never
\* validates, and when the reuse is its only violation the error is the
\* duplicate-custom-id error.
C2_ReuseReportedAsDuplicate ==
    (Checked /\ CustomIdReused) =>
        /\ ~check_result.ok
        /\ ValidButForReuse => IsDuplicateCustomIdError(check_result.err)

\* C3: a message of more than 5 action rows fails with the row-count error
\* whatever the rows hold, before any row is examined (the context is left as
\* new); a message of 0 to 5 rows never gets the row-count error.
C3_RowCount ==
    Checked =>
        /\ Len(Rows) > Message_max_action_row_count =>
            check_result = Err(RowCountError) /\ message_context = MessageContext_new
        /\ Len(Rows) <= Message_max_action_row_count => check_result # Err(RowCountError)

\* more than 5 rows, one of which would fail on its own (a reused custom id)
C3_Witness ==
    /\ Checked
    /\ Len(Rows) > Message_max_action_row_count
    /\ CustomIdReused
    /\ check_result = Err(RowCountError)

\* C4: a message of at most 5 rows that holds an empty row, with no failing
\* row before it, fails validation (with the empty-row error, which the code
\* has no text for).
C4_EmptyRowFails ==
    (/\ Checked
     /\ Len(Rows) <= Message_max_action_row_count
     /\ \E r \in 1..Len(Rows) :
            /\ Len(Rows[r].components) = 0
            /\ Message_fold(SubSeq(Rows, 1, r - 1), 1, Ok, MessageContext_new).res.ok)
        => ~check_result.ok

\* C5: the button limit is per action row: a message of 1 to 5 rows, each of 1
\* to 5 styled regular buttons whose custom ids are distinct across the message
\* and within 100 characters, labels within 80, validates.
C5_ButtonLimitPerRow ==
    (/\ Checked
     /\ Len(Rows) \in 1..Message_max_action_row_count
     /\ \A r \in 1..Len(Rows) : Len(Rows[r].components) \in 1..ActionRow_max_button_count
     /\ \A p \in Places :
            IsStyledButton(At(p)) /\ CustomIdWithinLimit(At(p)) /\ LabelWithinLimit(At(p))
     /\ ~CustomIdReused)
        => check_result.ok

\* 5 rows of 5 styled regular buttons each, validated
C5_Witness ==
    /\ Checked
    /\ Len(Rows) = Message_max_action_row_count
    /\ \A r \in 1..Len(Rows) : Len(Rows[r].components) = ActionRow_max_button_count
    /\ \A p \in Places : IsStyledButton(At(p)) /\ CustomIdWithinLimit(At(p))
    /\ ~CustomIdReused
    /\ check_result.ok

\* C6: the select-menu limit is per action row: a message of 2 to 5 rows, each
\* holding exactly one valid select menu, the custom ids distinct, validates.
C6_SelectMenuLimitPerRow ==
    (/\ Checked
     /\ Len(Rows) \in 2..Message_max_action_row_count
     /\ \A r \in 1..Len(Rows) :
            Len(Rows[r].components) = 1 /\ SelectMenuIsValid(Rows[r].components[1])
     /\ ~CustomIdReused)
        => check_result.ok

\* C7: a message with an action row that holds a button (link or regular) and a
\* select menu, in either order, fails validation.
C7_ButtonAndSelectMenuConflict ==
    (/\ Checked
     /\ \E p \in Places, q \in Places :
            p[1] = q[1] /\ IsButton(At(p)) /\ IsSelectMenu(At(q)))
        => ~check_result.ok

\* C8: a message with an action row of more than 5 buttons, link and regular
\* buttons counted alike, fails validation.
C8_AtMostFiveButtons ==
    (/\ Checked
     /\ \E r \in 1..Len(Rows) :
            Cardinality({p \in Places : p[1] = r /\ IsButton(At(p))}) > ActionRow_max_button_count)
        => ~check_result.ok

\* C9: a select menu whose min_values and max_values are both set and
\* min_values > max_values fails validation (with the inverted-range error, which
\* the code has no text for), also when each value lies within its own interval
\* and the menu breaks no other rule.
C9_InvertedRange ==
    (/\ Checked
     /\ \E p \in Places :
            /\ SelectMenuFieldsAreValid(At(p))
            /\ is_some(At(p).min_values) /\ is_some(At(p).max_values)
            /\ unwrap(At(p).min_values) > unwrap(At(p).max_values))
        => ~check_result.ok

\* C10: a regular button without a style, its label absent or within the limit,
\* gets the missing-style error whether or not its custom id is set, and
\* registers no custom id: when it is the first component checked the message
\* fails with the missing-style error, and every custom id in the context is
\* that of a select menu or of a button that has a style.
C10_StyleBeforeCustomId ==
    Checked =>
        /\ (/\ Len(Rows) \in 1..Message_max_action_row_count
            /\ Len(Rows[1].components) >= 1
            /\ IsButton(Rows[1].components[1])
            /\ is_none(Rows[1].components[1].style)
            /\ LabelWithinLimit(Rows[1].components[1]))
                => check_result = Err(MissingStyleError)
        /\ \A id \in message_context.custom_ids :
                \E p \in Places : CarriesCustomId(At(p)) /\ At(p).custom_id = Some(id)

\* a button with a custom id and a label of 80 characters, but no style, checked
C10_Witness ==
    /\ Checked
    /\ Places = {<<1, 1>>}
    /\ IsButton(At(<<1, 1>>))
    /\ is_none(At(<<1, 1>>).style)
    /\ is_some(At(<<1, 1>>).custom_id)
    /\ is_some(At(<<1, 1>>).label) /\ Len(unwrap(At(<<1, 1>>).label)) = Message_label_max_len
    /\ check_result = Err(MissingStyleError)
    /\ message_context.custom_ids = {}

\* the message is one row of one component, as the field tests build it
OneComponent == Len(Rows) = 1 /\ Len(Rows[1].components) = 1

TheComponent == Rows[1].components[1]

\* C11: the label bound of a button (link or regular) is inclusive: a button
\* whose label has length L gets the label-length error if and only if L > 80;
\* an otherwise valid button with a label of exactly 80 validates, and one of 81
\* fails with the label-length error.
C11_LabelBoundInclusive ==
    (Checked /\ OneComponent /\ IsButton(TheComponent) /\ is_some(TheComponent.label)) =>
        /\ check_result = Err(LabelLengthError)
            <=> Len(unwrap(TheComponent.label)) > 80
        /\ (Len(unwrap(TheComponent.label)) = 80 /\ ButtonIsValid(TheComponent))
            => check_result.ok

\* a link button with a url and a label of exactly 80 characters, validated
C11_Witness ==
    /\ Checked /\ OneComponent
    /\ IsLinkButton(TheComponent)
    /\ is_some(TheComponent.label) /\ Len(unwrap(TheComponent.label)) = 80
    /\ check_result.ok

\* C12: a regular button with a style, or a select menu, whose custom id is
\* longer than 100 characters fails validation; an otherwise valid one whose
\* custom id has exactly 100 characters validates.
C12_CustomIdBound ==
    (Checked /\ OneComponent /\ CarriesCustomId(TheComponent)) =>
        /\ Len(unwrap(TheComponent.custom_id)) > 100 => ~check_result.ok
        /\ (/\ Len(unwrap(TheComponent.custom_id)) = 100
            /\ ButtonIsValid(TheComponent) \/ SelectMenuIsValid(TheComponent))
                => check_result.ok

\* a select menu that breaks no rule but that its custom id has 101 characters,
\* rejected
C12_Witness ==
    /\ Checked /\ OneComponent
    /\ IsSelectMenu(TheComponent)
    /\ is_some(TheComponent.custom_id) /\ Len(unwrap(TheComponent.custom_id)) = 101
    /\ SelectMenuIsValid([TheComponent EXCEPT !.custom_id = Some("0")])
    /\ ~check_result.ok

\* C13: a select menu with a custom id, no placeholder and exactly 25 valid
\* options validates, and a select menu with a custom id and 26 or more options
\* fails with the option-count error.
C13_OptionCount ==
    (Checked /\ OneComponent /\ IsSelectMenu(TheComponent) /\ is_some(TheComponent.custom_id)) =>
        /\ Len(TheComponent.options) >= 26 => check_result = Err(OptionCountError)
        /\ (/\ Len(TheComponent.options) = 25
            /\ is_none(TheComponent.placeholder)
            /\ SelectMenuIsValid(TheComponent))
                => check_result.ok

\* a select menu of exactly 25 options and no placeholder, validated
C13_Witness ==
    /\ Checked /\ OneComponent
    /\ IsSelectMenu(TheComponent)
    /\ Len(TheComponent.options) = 25
    /\ is_none(TheComponent.placeholder)
    /\ check_result.ok

\* C14: a select menu with zero options fails validation.
C14_ZeroOptionsFail ==
    (Checked /\ OneComponent /\ IsSelectMenu(TheComponent) /\ Len(TheComponent.options) = 0)
        => ~check_result.ok

\* C15: a select menu whose max_values is set and lies outside [1,25] (0, or
\* above 25) fails validation; one that breaks no rule, its max_values inside
\* [1,25], validates.
C15_MaxValuesInterval ==
    (Checked /\ OneComponent /\ IsSelectMenu(TheComponent) /\ is_some(TheComponent.max_values)) =>
        /\ unwrap(TheComponent.max_values) \notin 1..25 => ~check_result.ok
        /\ SelectMenuIsValid(TheComponent) => check_result.ok

\* C16: a select menu holding an option whose label and value are set and whose
\* value is longer than 100 characters fails validation, whatever the length of
\* the label.
C16_OptionValueLength ==
    (/\ Checked /\ OneComponent /\ IsSelectMenu(TheComponent)
     /\ \E i \in 1..Len(TheComponent.options) :
            LET o == TheComponent.options[i] IN
            is_some(o.label) /\ is_some(o.value) /\ Len(unwrap(o.value)) > 100)
        => ~check_result.ok

\* C17: a link button without a url, its label absent or within the limit,
\* fails with the missing-url error; a link button never gets the missing-style
\* or the missing-custom-id error, the builder giving it the Link style and no
\* custom id whatever its label and url.
C17_LinkButtonWithoutUrl ==
    /\ \A label \in LabelInputs, url \in {None, Some("u")} :
            LET b == LinkButton_to_serializable_button([label |-> label, url |-> url]) IN
            b.style = Some("Link") /\ b.custom_id = None
    /\ (Checked /\ OneComponent
            /\ TheComponent \in {LinkButton_to_serializable_button([label |-> label, url |-> url]) :
                                    label \in LabelInputs, url \in {None, Some("u")}}) =>
        /\ (is_none(TheComponent.url) /\ LabelWithinLimit(TheComponent))
            => check_result = Err(MissingUrlError)
        /\ check_result \notin {Err(MissingStyleError), Err(ButtonMissingCustomIdError)}

\* a link button with a label of 80 characters and no url, rejected for the url
C17_Witness ==
    /\ Checked /\ OneComponent
    /\ IsLinkButton(TheComponent)
    /\ is_none(TheComponent.url)
    /\ is_some(TheComponent.label) /\ Len(unwrap(TheComponent.label)) = 80
    /\ check_result = Err(MissingUrlError)

\* C18: a message of at most 5 action rows that all pass, holding an embed that
\* has a field with an empty name or an empty value, fails validation.
C18_EmbedsAreChecked ==
    (/\ Checked
     /\ Len(Rows) <= 5
     /\ Message_fold(Rows, 1, Ok, MessageContext_new).res.ok
     /\ \E e \in 1..Len(message.embeds) :
            \E f \in 1..Len(message.embeds[e].fields) :
                LET field == message.embeds[e].fields[f] IN
                field.name = "" \/ field.value = "")
        => ~check_result.ok

\* C19: in the state right after a call to register_action_row the button
\* counter and the select-menu counter are both zero, whatever they were, and
\* the set of custom ids is as it was.
C19_BothCountersReset ==
    [][call'.op = "register_action_row" =>
        /\ message_context'.button_count_in_action_row = 0
        /\ message_context'.select_menu_count_in_action_row = 0
        /\ message_context'.custom_ids = message_context.custom_ids]_vars

\* C20: a call to register_button or register_select_menu reports the first
\* violation in a fixed order: the custom id already registered, then the
\* counter of its kind at its limit (5 buttons, 1 select menu), then a component
\* of the other kind counted in the row; it succeeds when there is none.
C20_CheckOrder ==
    [][LET ctx == message_context
           id == unwrap(call'.id) IN
        /\ call'.op = "register_button" =>
            check_result' =
                IF id \in ctx.custom_ids THEN Err(DuplicateCustomIdError(id))
                ELSE IF ctx.button_count_in_action_row >= 5 THEN Err(ButtonCountError)
                ELSE IF ctx.select_menu_count_in_action_row > 0 THEN Err(ButtonConflictError)
                ELSE Ok
        /\ call'.op = "register_select_menu" =>
            check_result' =
                IF id \in ctx.custom_ids THEN Err(DuplicateCustomIdError(id))
                ELSE IF ctx.select_menu_count_in_action_row >= 1 THEN Err(SelectMenuCountError)
                ELSE IF ctx.button_count_in_action_row > 0 THEN Err(SelectMenuConflictError)
                ELSE Ok]_vars

\* a button with a registered custom id, called in a row that already counts 5
\* buttons and a select menu, reported as a duplicate
C20_Witness ==
    /\ call.op = "register_button"
    /\ check_result = Err(DuplicateCustomIdError(unwrap(call.id)))
    /\ message_context.button_count_in_action_row = 5
    /\ message_context.select_menu_count_in_action_row = 1

\* A traversal that makes the same checks in the same order but stops at the
\* first one that fails: nothing is checked, and the context is not touched,
\* after a failure.
RECURSIVE FirstFailure_options(_, _)
FirstFailure_options(options, i) ==
    IF i > Len(options) THEN Ok
    ELSE LET r == SelectOption_check_compatibility(options[i]) IN
         IF ~r.ok THEN r ELSE FirstFailure_options(options, i + 1)

FirstFailure_SelectMenu(m, ctx) ==
    IF is_none(m.custom_id) THEN [res |-> Err(MenuMissingCustomIdError), ctx |-> ctx]
    ELSE
    LET r == register_select_menu(ctx, unwrap(m.custom_id))
        lengths == limit_max_length(
                    << <<m.custom_id, Message_custom_id_max_len, "Custom ID">>,
                       <<m.placeholder, SelectMenu_placeholder_max_len, "Placeholder">> >>, 1)
    IN
    IF ~r.res.ok THEN r
    ELSE IF Len(m.options) > SelectMenu_max_option_count
    THEN [res |-> Err(OptionCountError), ctx |-> r.ctx]
    ELSE IF is_some(m.min_values)
            /\ (unwrap(m.min_values) > SelectMenu_maximum_of_min_values
                \/ unwrap(m.min_values) < SelectMenu_minimum_of_min_values)
    THEN [res |-> Err(MinValuesError), ctx |-> r.ctx]
    ELSE IF is_some(m.max_values) /\ unwrap(m.max_values) > SelectMenu_maximum_of_max_values
    THEN [res |-> Err(MaxValuesError), ctx |-> r.ctx]
    ELSE IF ~lengths.ok THEN [res |-> lengths, ctx |-> r.ctx]
    ELSE [res |-> FirstFailure_options(m.options, 1), ctx |-> r.ctx]

FirstFailure_Button(b, ctx) ==
    IF is_some(b.label) /\ Len(unwrap(b.label)) > Message_label_max_len
    THEN [res |-> Err(LabelLengthError), ctx |-> ctx]
    ELSE IF is_none(b.style) THEN [res |-> Err(MissingStyleError), ctx |-> ctx]
    ELSE IF unwrap(b.style) = "Link"
    THEN [res |-> IF is_none(b.url) THEN Err(MissingUrlError) ELSE Ok, ctx |-> ctx]
    ELSE IF is_none(b.custom_id) THEN [res |-> Err(ButtonMissingCustomIdError), ctx |-> ctx]
    ELSE IF Len(unwrap(b.custom_id)) > Message_custom_id_max_len
    THEN [res |-> Err(CustomIdLengthError), ctx |-> ctx]
    ELSE register_button(ctx, unwrap(b.custom_id))

RECURSIVE FirstFailure_components(_, _, _)
FirstFailure_components(components, i, ctx) ==
    IF i > Len(components) THEN [res |-> Ok, ctx |-> ctx]
    ELSE LET r == IF components[i].kind = "Button"
                  THEN FirstFailure_Button(components[i], ctx)
                  ELSE FirstFailure_SelectMenu(components[i], ctx) IN
         IF ~r.res.ok THEN r ELSE FirstFailure_components(components, i + 1, r.ctx)

RECURSIVE FirstFailure_rows(_, _, _)
FirstFailure_rows(action_rows, i, ctx) ==
    IF i > Len(action_rows) THEN [res |-> Ok, ctx |-> ctx]
    ELSE LET r == FirstFailure_components(action_rows[i].components, 1,
                                          register_action_row(ctx)) IN
         IF ~r.res.ok THEN r ELSE FirstFailure_rows(action_rows, i + 1, r.ctx)

FirstFailure_Message(msg) ==
    IF Len(msg.action_rows) > Message_max_action_row_count
    THEN [res |-> Err(RowCountError), ctx |-> MessageContext_new]
    ELSE FirstFailure_rows(msg.action_rows, 1, MessageContext_new)

\* C21: the result of validating a message is the first failure in traversal
\* order (rows, components within a row, options within a menu, left to right),
\* and success only if no check fails: it is the result of the traversal that
\* stops at the first failing check, although the folds go on checking, and
\* changing the context, after an error.
C21_FirstFailure ==
    Checked => check_result = FirstFailure_Message(message).res

\* a message whose first failure is followed by a component that fails
\* differently and by one that the folds still register in the context
C21_Witness ==
    /\ Checked
    /\ ~check_result.ok
    /\ message_context # FirstFailure_Message(message).ctx
    /\ \E p \in Places, q \in Places :
        /\ p # q
        /\ ~NonCompositeComponent_check_compatibility(At(p), MessageContext_new).res.ok
        /\ ~NonCompositeComponent_check_compatibility(At(q), MessageContext_new).res.ok
        /\ NonCompositeComponent_check_compatibility(At(p), MessageContext_new).res
            # NonCompositeComponent_check_compatibility(At(q), MessageContext_new).res

\* C22: register_custom_id rejects an id longer than 100 characters and inserts
\* an id only on success: after a styled regular button or a select menu whose
\* custom id is longer than 100 characters has been checked, that id is not in
\* the context's set of custom ids.
C22_OverlongIdNotRegistered ==
    (Checked /\ OneComponent /\ CarriesCustomId(TheComponent)
        /\ Len(unwrap(TheComponent.custom_id)) > 100)
        => unwrap(TheComponent.custom_id) \notin message_context.custom_ids

\* the context after the calls i.. of the sequence are made on ctx
RECURSIVE Replay(_, _, _)
Replay(calls, i, ctx) ==
    IF i > Len(calls) THEN ctx
    ELSE Replay(calls, i + 1,
                CASE calls[i].op = "register_action_row" -> register_action_row(ctx)
                  [] calls[i].op = "register_button" ->
                        register_button(ctx, unwrap(calls[i].id)).ctx
                  [] OTHER -> register_select_menu(ctx, unwrap(calls[i].id)).ctx)

\* C23: in a validation pass over a message of at most 5 rows,
\* register_action_row is called exactly once per row, in row order, and the
\* calls registering the components of row k all lie after the
\* register_action_row of row k and before that of row k+1; these calls, made in
\* this order on a new context, give the context the pass ends with.
C23_RegisterActionRowOncePerRow ==
    (Checked /\ Len(Rows) <= 5) =>
        LET calls == Message_calls(message)
            RowCalls == {i \in 1..Len(calls) : calls[i].op = "register_action_row"}
            RowCallOf(k) == CHOOSE i \in RowCalls : calls[i].row = k
        IN
        /\ Cardinality(RowCalls) = Len(Rows)
        /\ \A k \in 1..Len(Rows) :
                Cardinality({i \in RowCalls : calls[i].row = k}) = 1
        /\ \A i \in RowCalls, j \in RowCalls : i < j => calls[i].row < calls[j].row
        /\ \A i \in (1..Len(calls)) \ RowCalls :
                /\ calls[i].row \in 1..Len(Rows)
                /\ RowCallOf(calls[i].row) < i
                /\ calls[i].row < Len(Rows) => i < RowCallOf(calls[i].row + 1)
        /\ Replay(calls, 1, MessageContext_new) = message_context

\* three rows, the second and the third each registering a component, checked
C23_Witness ==
    /\ Checked
    /\ Len(Rows) = 3
    /\ \E p \in Places, q \in Places :
        p[1] = 2 /\ q[1] = 3 /\ CarriesCustomId(At(p)) /\ CarriesCustomId(At(q))
    /\ Len(Message_calls(message)) = 5

\* C24: every send validates its message against a new context of its own: the
\* outcome is that of the first-failure traversal of this send's message from an
\* empty context, whatever sends came before; the context it ends with holds
\* custom ids of this message only; and a message that uses no custom id twice
\* never gets the duplicate-id error, whatever ids earlier sends used.
C24_FreshContextPerSend ==
    Checked =>
        /\ check_result = FirstFailure_Message(message).res
        /\ \A id \in message_context.custom_ids :
                \E p \in Places : CarriesCustomId(At(p)) /\ At(p).custom_id = Some(id)
        /\ ~CustomIdReused => ~IsDuplicateCustomIdError(check_result.err)

\* a send whose message carries the custom id "0" once and validates, after an
\* earlier send on the client failed for using "0" twice
C24_Witness ==
    /\ pc = "request"
    /\ result = InvalidInput(DuplicateCustomIdError("0"))
    /\ check_result.ok
    /\ ~CustomIdReused
    /\ \E p \in Places : CarriesCustomId(At(p)) /\ At(p).custom_id = Some("0")

\* C25: in every context reached from a new one by calls of register_action_row,
\* register_button and register_select_menu, failing calls included, the button
\* counter is at most 5 and the select-menu counter at most 1.
C25_CountersWithinLimits ==
    /\ message_context.button_count_in_action_row \in 0..5
    /\ message_context.select_menu_count_in_action_row \in 0..1

\* both counters at their limits, a further select menu just refused for the count
C25_Witness ==
    /\ call.op = "register_select_menu"
    /\ check_result = Err(SelectMenuCountError)
    /\ message_context.button_count_in_action_row = 5
    /\ message_context.select_menu_count_in_action_row = 1

\* C26: a message in which no row holds both a button and a
\* select menu never fails with a button/select-menu conflict error, whatever
\* its earlier rows hold.
C26_ConflictOnlyInMixedRows ==
    (/\ Checked
     /\ \A p \in Places, q \in Places :
            p[1] = q[1] => ~(IsButton(At(p)) /\ IsSelectMenu(At(q))))
        => check_result \notin {Err(ButtonConflictError), Err(SelectMenuConflictError)}

====
